---- MODULE Spec2Model ----
(***************************************************************************)
(* A model of sina_blog_backup.py: the crawl orchestrator of main() and    *)
(* the extraction helpers it calls.  Each component has a specification of *)
(* its own; the variables of the other components stay idle in it.         *)
(***************************************************************************)
EXTENDS Integers, Sequences, FiniteSets, TLC

\* ------------------------------------------------------------------ bounds
\* config["max_pages"]: the cap on listing pages of one run.
MaxPages == 3
\* The number of distinct articles the modelled blog holds.
NumArticles == 3

\* ------------------------------------------------------------------ state
\* Crawl orchestrator: main()
VARIABLES
    pc,            \* "collecting" | "downloading" | "done" | "off"
    config,        \* the link-discovery part of the configuration bundle
    page,          \* the listing page the for loop is at
    seen,          \* main: seen
    article_urls,  \* main: article_urls
    idx,           \* the article the enumerate loop is at
    articles,      \* main: articles
    events,        \* what the run did, in order: list fetches, article
                   \* fetches, time.sleep calls
    repeats        \* the URLs more than one fetched listing page held

\* Content extractor: guess_content_node(soup, selectors)
VARIABLES
    content_pc,         \* "call" | "returned" | "off"
    soup,               \* the div elements of the page, in document order
    content_selectors,  \* selectors.get("content", [])
    content_node        \* the returned node: its position in soup, 0 for None

\* Tag extraction of parse_article: the configured chain, else guess_tags
VARIABLES
    tag_pc,         \* "call" | "returned" | "off"
    tag_elems,      \* the page's link elements, in document order
    tag_segment,    \* what follows the tags label in the visible text
    tag_selectors,  \* selectors.get("tags", [])
    tags            \* the tags of the returned Article

\* Image localizer: download_images, over the articles of one or more runs
VARIABLES
    img_pc,     \* "loop" | "returned" | "off"
    imgs,       \* the img elements of the content, in document order
    orig_imgs,  \* the img elements as download_images received them
    img_i,      \* the img element the for loop is at
    cache,      \* download_images: cache, as a set of <<full_url, rel_path>>
    disk,       \* the file names that exist under output_dir/images
    net,        \* the session.get calls of this pass, in order
    img_log,    \* what the loop did with each img element of this pass
    named,      \* every <<full_url, filename>> computed so far, all passes
    img_pass    \* the number of the download_images call

\* Selector chains: pick_text(soup, selectors)
VARIABLES
    pick_pc,         \* "call" | "returned" | "off"
    pick_soup,       \* the elements of the page, in document order
    pick_selectors,  \* the selector chain
    pick_result      \* the returned text

\* File names: the date stamp and safe_filename of main's article loop
VARIABLES
    name_pc,       \* "call" | "returned" | "off"
    published_at,  \* article["published_at"], a sequence of characters
    title,         \* article["title"], a sequence of characters
    name_idx,      \* idx of the enumerate loop
    base_name      \* main: base_name, a sequence of characters

\* Encoding resolver: normalize_encoding(response)
VARIABLES
    enc_pc,    \* "call" | "returned" | "off"
    resp_content, \* response.content, a sequence of tokens
    apparent,  \* response.apparent_encoding, the detector's guess
    encoding   \* response.encoding

crawlVars == <<pc, config, page, seen, article_urls, idx, articles, events, repeats>>
contentVars == <<content_pc, soup, content_selectors, content_node>>
tagVars == <<tag_pc, tag_elems, tag_segment, tag_selectors, tags>>
imgVars == <<img_pc, imgs, orig_imgs, img_i, cache, disk, net, img_log, named, img_pass>>
pickVars == <<pick_pc, pick_soup, pick_selectors, pick_result>>
nameVars == <<name_pc, published_at, title, name_idx, base_name>>
encVars == <<enc_pc, resp_content, apparent, encoding>>

vars == <<crawlVars, contentVars, tagVars, imgVars, pickVars, nameVars, encVars>>

\* Each component's steps leave the other components alone.
CrawlOnly == UNCHANGED <<contentVars, tagVars, imgVars, pickVars, nameVars, encVars>>
ContentOnly == UNCHANGED <<crawlVars, tagVars, imgVars, pickVars, nameVars, encVars>>
TagOnly == UNCHANGED <<crawlVars, contentVars, imgVars, pickVars, nameVars, encVars>>
ImgOnly == UNCHANGED <<crawlVars, contentVars, tagVars, pickVars, nameVars, encVars>>
PickOnly == UNCHANGED <<crawlVars, contentVars, tagVars, imgVars, nameVars, encVars>>
NameOnly == UNCHANGED <<crawlVars, contentVars, tagVars, imgVars, pickVars, encVars>>
EncOnly == UNCHANGED <<crawlVars, contentVars, tagVars, imgVars, pickVars, nameVars>>

CrawlIdle ==
    /\ pc = "off"
    /\ config = [list_link |-> "", article_url_regex |-> ""]
    /\ page = 0
    /\ seen = {}
    /\ article_urls = <<>>
    /\ idx = 0
    /\ articles = <<>>
    /\ events = <<>>
    /\ repeats = {}

ContentIdle ==
    /\ content_pc = "off"
    /\ soup = <<>>
    /\ content_selectors = <<>>
    /\ content_node = 0

TagIdle ==
    /\ tag_pc = "off"
    /\ tag_elems = <<>>
    /\ tag_segment = <<>>
    /\ tag_selectors = <<>>
    /\ tags = <<>>

ImgIdle ==
    /\ img_pc = "off"
    /\ imgs = <<>>
    /\ orig_imgs = <<>>
    /\ img_i = 0
    /\ cache = {}
    /\ disk = {}
    /\ net = <<>>
    /\ img_log = <<>>
    /\ named = {}
    /\ img_pass = 0

PickIdle ==
    /\ pick_pc = "off"
    /\ pick_soup = <<>>
    /\ pick_selectors = <<>>
    /\ pick_result = <<>>

NameIdle ==
    /\ name_pc = "off"
    /\ published_at = <<>>
    /\ title = <<>>
    /\ name_idx = 0
    /\ base_name = <<>>

EncIdle ==
    /\ enc_pc = "off"
    /\ resp_content = <<>>
    /\ apparent = <<>>
    /\ encoding = <<>>

\* ------------------------------------------------------------- utilities
Range(s) == {s[i] : i \in 1..Len(s)}

NoDup(s) == \A i, j \in 1..Len(s) : i # j => s[i] # s[j]

\* All orders in which a finite set can be iterated (Python's set iteration
\* order is unspecified).
Orders(S) == {s \in [1..Cardinality(S) -> S] : Range(s) = S}

\* ========================================================================
\* Crawl orchestrator: main(), collecting phase and downloading phase
\* ========================================================================
SinaHost == "blog.sina.com.cn"
OtherHost == "example.com"

\* An absolute URL is a host and a path.
ArticlePath(k) == <<"s", "blog", k>>
ProfilePath == <<"u", "profile">>
ArticleUrl(k) == [host |-> SinaHost, path |-> ArticlePath(k)]

\* The href attributes a listing page may carry: an article in relative
\* form, article 1 also in absolute form, a link that is no article, a link
\* of article shape on another host, and an empty href.
Hrefs ==
    {[kind |-> "rel", host |-> "", path |-> ArticlePath(k)] : k \in 1..NumArticles}
    \cup {[kind |-> "abs", host |-> SinaHost, path |-> ArticlePath(1)],
          [kind |-> "rel", host |-> "", path |-> ProfilePath],
          [kind |-> "abs", host |-> OtherHost, path |-> ArticlePath(1)],
          [kind |-> "empty", host |-> "", path |-> <<>>]}

\* An anchor element: its href and whether selectors.list_link matches it.
\* The blog's pages are assembled from this catalogue: the post list links
\* every article (matched by the selector), a sidebar repeats article 1 in
\* absolute form and article 2 in relative form (not matched), and there are
\* a profile link, a foreign link and an anchor with an empty href.
Anchors ==
    {[href |-> h, listed |-> (h.path # ProfilePath)] : h \in Hrefs}
    \cup {[href |-> [kind |-> "rel", host |-> "", path |-> ArticlePath(2)],
           listed |-> FALSE]}
    \cup {[href |-> [kind |-> "abs", host |-> SinaHost, path |-> ArticlePath(1)],
           listed |-> FALSE]}

\* list_url_template.format(uid, page): every listing page is on the blog's
\* host.
ListUrl(p) == [host |-> SinaHost, path |-> <<"list", p>>]

\* urljoin(base_url, href) for the href forms above.
UrlJoin(base, href) ==
    IF href.kind = "abs" THEN [host |-> href.host, path |-> href.path]
    ELSE IF href.kind = "rel" THEN [host |-> base.host, path |-> href.path]
    ELSE base

\* is_article_url(url, regex_pattern)
is_article_url(url, regex_pattern) ==
    IF regex_pattern # ""
    THEN \* the modelled article_url_regex is r"blog_1": article 1 on any host
         Len(url.path) = 3 /\ url.path[2] = "blog" /\ url.path[3] = 1
    ELSE url.host = SinaHost /\ Len(url.path) = 3 /\ url.path[1] = "s"
         /\ url.path[2] = "blog"

\* extract_article_links(list_html, base_url, config): the set of links
extract_article_links(anchors, base_url, cfg) ==
    LET cand == IF cfg.list_link # ""
                THEN {a \in anchors : a.listed}
                ELSE anchors
    IN {UrlJoin(base_url, a.href) :
            a \in {c \in cand : c.href.kind # "empty"
                                /\ is_article_url(UrlJoin(base_url, c.href),
                                                  cfg.article_url_regex)}}

\* A mutant of NewLinks: the filter against seen is dropped.
NewLinksNoFilter(links, seenSet) == links

\* main: new_links = [link for link in links if link not in seen]
NewLinks(links, seenSet) == {l \in links : l \notin seenSet}

\* A mutant of AfterListFailure: a failed listing fetch aborts the run.
AfterListFailureAbort == "done"

\* main: the break of the collecting loop falls through to the downloading
\* phase.
AfterListFailure == "downloading"

\* A mutant of AfterArticleFailure: a failed article fetch ends the loop.
AfterArticleFailureBreak(i) == Len(article_urls) + 1

\* main: the continue of the downloading loop goes to the next URL.
AfterArticleFailure(i) == i + 1

Configs == [list_link : {"", "a.atc_title"}, article_url_regex : {"", "blog_1"}]


CrawlInit ==
    /\ pc = "collecting"
    /\ config \in Configs
    /\ page = 1
    /\ seen = {}
    /\ article_urls = <<>>
    /\ idx = 1
    /\ articles = <<>>
    /\ events = <<>>
    /\ repeats = {}

\* The listing pages the model serves: sets of anchors.
ListingPages == SUBSET Anchors

\* fetch_text raises requests.RequestException on listing page `page`.
ListFetchFails ==
    /\ pc = "collecting"
    /\ page <= MaxPages
    /\ events' = Append(events, [ev |-> "list", page |-> page, ok |-> FALSE])
    /\ pc' = AfterListFailure
    /\ UNCHANGED <<config, page, seen, article_urls, idx, articles, repeats>>
    /\ CrawlOnly

\* The listing page is fetched and holds no link outside seen: break.
ListNoNewLinks ==
    /\ pc = "collecting"
    /\ page <= MaxPages
    /\ \E anchors \in ListingPages :
         LET links == extract_article_links(anchors, ListUrl(page), config)
         IN /\ NewLinks(links, seen) = {}
            /\ repeats' = repeats \cup (links \cap seen)
    /\ events' = Append(events, [ev |-> "list", page |-> page, ok |-> TRUE])
    /\ pc' = "downloading"
    /\ UNCHANGED <<config, page, seen, article_urls, idx, articles>>
    /\ CrawlOnly

\* The listing page is fetched and holds new links: they are appended, the
\* run sleeps and goes to the next page.
ListNewLinks ==
    /\ pc = "collecting"
    /\ page <= MaxPages
    /\ \E anchors \in ListingPages :
         LET links == extract_article_links(anchors, ListUrl(page), config)
             new_links == NewLinks(links, seen)
         IN /\ new_links # {}
            /\ \E order \in Orders(new_links) :
                 article_urls' = article_urls \o order
            /\ seen' = seen \cup new_links
            /\ repeats' = repeats \cup (links \cap seen)
    /\ events' = events \o <<[ev |-> "list", page |-> page, ok |-> TRUE],
                             [ev |-> "sleep", page |-> page, ok |-> TRUE]>>
    /\ page' = page + 1
    /\ UNCHANGED <<pc, config, idx, articles>>
    /\ CrawlOnly

\* range(1, max_pages + 1) is exhausted.
ListLoopEnds ==
    /\ pc = "collecting"
    /\ page > MaxPages
    /\ pc' = "downloading"
    /\ UNCHANGED <<config, page, seen, article_urls, idx, articles, events, repeats>>
    /\ CrawlOnly

\* fetch_text raises on article idx: log and continue.
ArticleFetchFails ==
    /\ pc = "downloading"
    /\ idx <= Len(article_urls)
    /\ events' = Append(events, [ev |-> "article", page |-> idx, ok |-> FALSE])
    /\ idx' = AfterArticleFailure(idx)
    /\ UNCHANGED <<pc, config, page, seen, article_urls, articles, repeats>>
    /\ CrawlOnly

\* Article idx is fetched, parsed, written and recorded; the run sleeps.
ArticleDone ==
    /\ pc = "downloading"
    /\ idx <= Len(article_urls)
    /\ articles' = Append(articles, [url |-> article_urls[idx], idx |-> idx])
    /\ events' = events \o <<[ev |-> "article", page |-> idx, ok |-> TRUE],
                             [ev |-> "sleep", page |-> idx, ok |-> TRUE]>>
    /\ idx' = idx + 1
    /\ UNCHANGED <<pc, config, page, seen, article_urls, repeats>>
    /\ CrawlOnly

\* The enumerate loop is exhausted: the index is written, phase "done".
DownloadLoopEnds ==
    /\ pc = "downloading"
    /\ idx > Len(article_urls)
    /\ pc' = "done"
    /\ UNCHANGED <<config, page, seen, article_urls, idx, articles, events, repeats>>
    /\ CrawlOnly

\* ------------------------------------------------------------------------
\* Claims about the crawl orchestrator (specification Spec)
\* ------------------------------------------------------------------------
IsListEvent(e) == e.ev = "list"
IsArticleEvent(e) == e.ev = "article"
ListEvents == SelectSeq(events, IsListEvent)
ArticleEvents == SelectSeq(events, IsArticleEvent)
FailedArticles == {i \in 1..Len(ArticleEvents) : ~ArticleEvents[i].ok}

\* C1: whatever the listing pages repeat, article_urls holds each discovered
\* URL exactly once and is, as a set, the seen set; the downloading phase
\* fetches no URL twice.
C1_LinkDedup ==
    /\ NoDup(article_urls)
    /\ Range(article_urls) = seen
    /\ \A i, j \in 1..Len(ArticleEvents) :
         i # j => article_urls[ArticleEvents[i].page] # article_urls[ArticleEvents[j].page]

\* C1 witness: a finished run of at least two URLs in which some URL was on
\* more than one listing page, every URL fetched.
C1_Witness ==
    /\ pc = "done"
    /\ repeats # {}
    /\ Len(article_urls) >= 2
    /\ Len(ArticleEvents) = Len(article_urls)

\* C2: when the run is done every discovered URL was fetched exactly once,
\* in order, whatever failed before it; the records are exactly those of the
\* URLs whose fetch succeeded, in order, n minus the failures in number.
C2_NonFatalArticleFailure ==
    pc = "done" =>
        /\ Len(ArticleEvents) = Len(article_urls)
        /\ \A k \in 1..Len(ArticleEvents) : ArticleEvents[k].page = k
        /\ Len(articles) = Len(article_urls) - Cardinality(FailedArticles)
        /\ \A k \in 1..Len(article_urls) :
             ArticleEvents[k].ok <=>
                 \E r \in 1..Len(articles) :
                     articles[r] = [url |-> article_urls[k], idx |-> k]
        /\ \A r, q \in 1..Len(articles) : r < q => articles[r].idx < articles[q].idx

\* C2 witness: a finished run of at least three URLs where the fetch of the
\* second failed and the third still produced a record.
C2_Witness ==
    /\ pc = "done"
    /\ Len(article_urls) >= 3
    /\ ~ArticleEvents[2].ok
    /\ \E r \in 1..Len(articles) : articles[r].idx = 3

\* The listing fetch at position i of events ended the collecting phase: it
\* failed, or no sleep follows it (the page held nothing new).
StopsCollecting(i) ==
    \/ ~events[i].ok
    \/ (i < Len(events) /\ events[i + 1].ev # "sleep")
    \/ (i = Len(events) /\ pc # "collecting")

\* C3: listing pages are fetched in the order 1, 2, ..., at most max_pages of
\* them; nothing is fetched after the first page that fails or holds nothing
\* new; every page before it added its URLs, which stay; and the run goes on
\* to download them instead of aborting.
C3_CollectingStops ==
    /\ Len(ListEvents) <= MaxPages
    /\ \A k \in 1..Len(ListEvents) : ListEvents[k].page = k
    /\ \A i \in 1..Len(events) :
         (events[i].ev = "list" /\ StopsCollecting(i)) =>
             /\ pc # "collecting"
             /\ \A j \in (i + 1)..Len(events) : events[j].ev # "list"
             /\ Len(article_urls) >= events[i].page - 1
    /\ pc = "collecting" => page = Len(ListEvents) + 1
    /\ pc = "done" => Len(ArticleEvents) = Len(article_urls)

\* C3 witness: page 1 gave URLs, the fetch of page 2 failed, and the run
\* ended having downloaded what page 1 gave.
C3_Witness ==
    /\ pc = "done"
    /\ Len(ListEvents) = 2
    /\ ~ListEvents[2].ok
    /\ Len(articles) >= 1

\* C11: between any two consecutive article page fetches of the downloading
\* phase a delay step occurs, whether the earlier fetch succeeded or failed.
C11_DelayBetweenArticleFetches ==
    \A i, j \in 1..Len(events) :
        (/\ i < j
         /\ IsArticleEvent(events[i])
         /\ IsArticleEvent(events[j])
         /\ \A k \in (i + 1)..(j - 1) : ~IsArticleEvent(events[k]))
        => \E k \in (i + 1)..(j - 1) : events[k].ev = "sleep"


Next ==
    \/ ListFetchFails
    \/ ListNoNewLinks
    \/ ListNewLinks
    \/ ListLoopEnds
    \/ ArticleFetchFails
    \/ ArticleDone
    \/ DownloadLoopEnds

\* ========================================================================
\* Content extractor: guess_content_node and its classifiers
\* ========================================================================
\* A div element: its id, its class tokens, whether a descendant carries a
\* class matching (blog_tag|blog_class), and its visible text: its length
\* and whether it holds the words for "tag" and for "category".
Div(id, class, tagChild, len, tagWord, catWord) ==
    [id |-> id, class |-> class, tagChild |-> tagChild,
     len |-> len, tagWord |-> tagWord, catWord |-> catWord]

\* The div elements the modelled pages are made of.
DivKinds ==
    { Div("sina_keyword_ad_area2", <<"articalContent">>, FALSE, 500, FALSE, FALSE),
      Div("", <<"articalContent">>, TRUE, 500, FALSE, FALSE),
      Div("", <<"articalTag">>, FALSE, 40, TRUE, TRUE),
      Div("", <<>>, FALSE, 40, TRUE, TRUE),
      Div("", <<>>, FALSE, 500, TRUE, TRUE),
      Div("SINA_keyword_ad_area3", <<>>, FALSE, 120, FALSE, FALSE),
      Div("", <<"post">>, TRUE, 600, FALSE, FALSE),
      Div("", <<"post", "wide">>, FALSE, 120, TRUE, FALSE),
      Div("comment", <<"sidebar">>, FALSE, 900, FALSE, FALSE),
      Div("", <<"entry">>, TRUE, 300, FALSE, FALSE),
      Div("artibody", <<"entry">>, FALSE, 300, FALSE, FALSE) }

\* The number of div elements of a page.
MaxDivs == 2

Soups == UNION {[1..n -> DivKinds] : n \in 0..MaxDivs}

\* selectors["content"] of the configuration bundle.
ContentSelectorChains == {<<>>, <<"div.entry">>, <<"", "div.missing", "div.entry">>}

\* The length below which a text holding both words marks a tag block.
TagTextLimit == 300

\* Whether a CSS selector matches a div.
SelectorMatches(sel, node) ==
    CASE sel = "div#sina_keyword_ad_area2" -> node.id = "sina_keyword_ad_area2"
      [] sel = "div.articalContent" -> "articalContent" \in Range(node.class)
      [] sel = "div#articlebody" -> node.id = "articlebody"
      [] sel = "div#artibody" -> node.id = "artibody"
      [] sel = "div.entry" -> "entry" \in Range(node.class)
      [] OTHER -> FALSE

\* The position of the first element of s that passes Test, 0 when none does
\* (select_one, find).
First(s, Test(_)) ==
    IF \E i \in 1..Len(s) : Test(s[i])
    THEN CHOOSE i \in 1..Len(s) : Test(s[i]) /\ \A j \in 1..(i - 1) : ~Test(s[j])
    ELSE 0

\* "articalTag" in " ".join(classes)
HasArticalTagClass(node) == "articalTag" \in Range(node.class)

\* is_tag_block(node)
is_tag_block(node) ==
    \/ HasArticalTagClass(node)
    \/ node.tagChild
    \/ (node.tagWord /\ node.catWord /\ node.len < TagTextLimit)

\* re.search(r"(nav|menu|footer|foot|side|comment|share|recommend)", id)
NoiseId(id) == id \in {"comment"}

\* re.search(r"(nav|...|recommend|articaltag)", classes.lower())
NoiseClass(c) == c \in {"sidebar", "articalTag"}

\* is_noise_node(node)
is_noise_node(node) ==
    \/ NoiseId(node.id)
    \/ \E c \in Range(node.class) : NoiseClass(c)

\* pick_html(soup, selectors): the first match of the first selector that
\* matches at all; empty selectors are skipped.
RECURSIVE pick_html(_, _)
pick_html(s, selectors) ==
    IF selectors = <<>> THEN 0
    ELSE LET sel == Head(selectors)
             MatchesSel(n) == SelectorMatches(sel, n)
             node == IF sel = "" THEN 0 ELSE First(s, MatchesSel)
         IN IF node # 0 THEN node ELSE pick_html(s, Tail(selectors))

KnownContentSelectors ==
    <<"div#sina_keyword_ad_area2", "div.articalContent", "div#articlebody",
      "div#artibody">>

\* The loop over the known container selectors: the first selector whose
\* first match is no tag block.
RECURSIVE KnownContainer(_, _)
KnownContainer(s, selectors) ==
    IF selectors = <<>> THEN 0
    ELSE LET MatchesSel(n) == SelectorMatches(Head(selectors), n)
             node == First(s, MatchesSel)
         IN IF node # 0 /\ ~is_tag_block(s[node]) THEN node
            ELSE KnownContainer(s, Tail(selectors))

\* re.compile(r"sina_keyword_ad_area", re.I) on the id
IdPattern(node) == node.id \in {"sina_keyword_ad_area2", "SINA_keyword_ad_area3"}

\* re.compile(r"(articalContent|article|post|content)", re.I) on a class
ClassPattern(node) == \E c \in Range(node.class) : c \in {"articalContent", "post"}

\* The last resort: of the divs that are no noise, the one with the longest
\* text, the first of them in document order (list.sort is stable).
LargestCandidate(s) ==
    LET cand == {i \in 1..Len(s) : ~is_noise_node(s[i])}
    IN IF cand = {} THEN 0
       ELSE CHOOSE i \in cand :
                \A j \in cand : s[j].len < s[i].len \/ (s[j].len = s[i].len /\ i <= j)

\* guess_content_node(soup, selectors)
guess_content_node(s, selectors) ==
    LET configured == pick_html(s, selectors)
        known == KnownContainer(s, KnownContentSelectors)
        byId == First(s, IdPattern)
        byClass == First(s, ClassPattern)
    IN IF configured # 0 THEN configured
       ELSE IF known # 0 THEN known
       ELSE IF byId # 0 /\ ~is_tag_block(s[byId]) THEN byId
       ELSE IF byClass # 0 /\ ~is_tag_block(s[byClass]) THEN byClass
       ELSE LargestCandidate(s)

ContentInit ==
    /\ content_pc = "call"
    /\ soup \in Soups
    /\ content_selectors \in ContentSelectorChains
    /\ content_node = 0

\* parse_article: content_node = guess_content_node(soup, selectors["content"])
GuessContentNode ==
    /\ content_pc = "call"
    /\ content_node' = guess_content_node(soup, content_selectors)
    /\ content_pc' = "returned"
    /\ UNCHANGED <<soup, content_selectors>>
    /\ ContentOnly

ContentNext == GuessContentNode

\* C4: no path of guess_content_node returns a div that is_tag_block
\* classifies as a tag block.
C4_TagBlockNeverContent ==
    (content_pc = "returned" /\ content_node # 0) => ~is_tag_block(soup[content_node])

\* ========================================================================
\* Tags: parse_article's configured chain and guess_tags
\* ========================================================================
\* The number of link elements of a page, and of tokens after the label.
MaxTagElems == 2
MaxSegTokens == 3

\* guess_tags: a labelled segment longer than this is not split.
TagSegmentLimit == 120

\* A text is a sequence of tokens; a word token stands for a run of
\* characters that are neither whitespace nor a comma.
WordTokens == {"t1", "long"}
SepTokens == {",", " "}
TokenLen(t) == IF t = "long" THEN 130 ELSE 1

RECURSIVE TextLen(_)
TextLen(text) == IF text = <<>> THEN 0 ELSE TokenLen(Head(text)) + TextLen(Tail(text))

\* A link element: which selectors match it and its stripped text.
TagElemKinds ==
    [kind : {"rel_tag", "custom"}, text : {<<>>, <<"t1">>, <<"t2">>}]
    \cup {[kind |-> "other", text |-> <<"t1">>]}

TagDocs == UNION {[1..n -> TagElemKinds] : n \in 0..MaxTagElems}

\* The text after the label, stripped: it neither starts nor ends with
\* whitespace.  NoLabel: the page's text holds no tags label.
NoLabel == <<"no label">>
TagSegments ==
    {NoLabel} \cup
    {seg \in UNION {[1..n -> WordTokens \cup SepTokens] : n \in 1..MaxSegTokens} :
        seg[1] # " " /\ seg[Len(seg)] # " "}

TagSelectorChains == {<<>>, <<"a.mytag">>, <<"a.mytag", "a[rel='tag']">>}

\* Whether a selector of the tags chain, or of guess_tags, matches an element.
TagSelectorMatches(sel, e) ==
    CASE sel = "a.mytag" -> e.kind = "custom"
      [] sel = "a[rel='tag']" -> e.kind = "rel_tag"
      [] sel = "a[rel='tag'], .blog_tag a, .tag a" -> e.kind = "rel_tag"
      [] OTHER -> FALSE

\* if text and text not in tag_list: tag_list.append(text)
AppendTag(list, text) ==
    IF text # <<>> /\ text \notin Range(list) THEN Append(list, text) ELSE list

\* for a in soup.select(sel): ... over the elements from position i on
RECURSIVE CollectSelected(_, _, _, _)
CollectSelected(elems, sel, i, list) ==
    IF i > Len(elems) THEN list
    ELSE CollectSelected(elems, sel, i + 1,
            IF TagSelectorMatches(sel, elems[i]) THEN AppendTag(list, elems[i].text)
            ELSE list)

\* parse_article: for sel in tags: for a in soup.select(sel): ...
RECURSIVE ConfiguredTags(_, _, _)
ConfiguredTags(elems, selectors, list) ==
    IF selectors = <<>> THEN list
    ELSE ConfiguredTags(elems, Tail(selectors),
            CollectSelected(elems, Head(selectors), 1, list))

\* re.split(r"[,\s]+", segment) followed by [p for p in parts if p]: the
\* maximal runs of word tokens, in order.  cur is the run being read.
RECURSIVE SplitParts(_, _, _)
SplitParts(seg, cur, parts) ==
    IF seg = <<>> THEN (IF cur = <<>> THEN parts ELSE Append(parts, cur))
    ELSE IF Head(seg) \in SepTokens
         THEN SplitParts(Tail(seg), <<>>, IF cur = <<>> THEN parts ELSE Append(parts, cur))
         ELSE SplitParts(Tail(seg), Append(cur, Head(seg)), parts)

\* guess_tags(soup)
guess_tags(elems, segment) ==
    LET linked == CollectSelected(elems, "a[rel='tag'], .blog_tag a, .tag a", 1, <<>>)
    IN IF linked # <<>> THEN linked
       ELSE IF segment # NoLabel /\ TextLen(segment) <= TagSegmentLimit
            THEN SplitParts(segment, <<>>, <<>>)
            ELSE <<>>

\* parse_article: the tags of the Article
ArticleTags(elems, segment, selectors) ==
    IF selectors # <<>> THEN ConfiguredTags(elems, selectors, <<>>)
    ELSE guess_tags(elems, segment)

TagInit ==
    /\ tag_pc = "call"
    /\ tag_elems \in TagDocs
    /\ tag_segment \in TagSegments
    /\ tag_selectors \in TagSelectorChains
    /\ tags = <<>>

\* parse_article computes the tags of the page.
ParseTags ==
    /\ tag_pc = "call"
    /\ tags' = ArticleTags(tag_elems, tag_segment, tag_selectors)
    /\ tag_pc' = "returned"
    /\ UNCHANGED <<tag_elems, tag_segment, tag_selectors>>
    /\ TagOnly

TagNext == ParseTags

\* C5: the tags of a returned Article hold no string twice, whichever path
\* produced them.
C5_TagsDistinct == tag_pc = "returned" => NoDup(tags)


\* ========================================================================
\* Image localizer: download_images
\* ========================================================================
\* The number of img elements of an article, and of download_images calls
\* (the articles of one run, or of reruns over the same output directory).
MaxImgs == 2
MaxPasses == 2

\* The size of the digest space the model gives the truncated SHA-1.
DigestSpace == 7

\* if not ext or len(ext) > 5: ext = ".jpg"
MaxExtLen == 5

ImgHost == "s1.sinaimg.cn"
JpgExt == <<".", "j", "p", "g">>
JpegExt == <<".", "j", "p", "e", "g">>
ImageExt == <<".", "i", "m", "a", "g", "e">>

\* An absolute image URL: host, path without extension, the extension of
\* the path as os.path.splitext gives it, and the query string.
ImgUrl(host, stem, ext, query) ==
    [host |-> host, stem |-> stem, ext |-> ext, query |-> query]

\* The value of a source attribute: an absolute or relative reference, a
\* string of whitespace, or None (the attribute is absent).
None == [kind |-> "none"]
Blank == [kind |-> "blank"]
AbsRef(u) == [kind |-> "abs", url |-> u]
RelRef(stem, ext) == [kind |-> "rel", stem |-> stem, ext |-> ext]
LocalRef(path) == [kind |-> "local", path |-> path]

Img(src, data_src, data_original) ==
    [src |-> src, data_src |-> data_src, data_original |-> data_original]

\* The img elements the modelled articles are made of.
ImgKinds ==
    { Img(AbsRef(ImgUrl(ImgHost, "a", JpgExt, "")), None, None),
      Img(None, RelRef("b", JpegExt), None),
      Img(AbsRef(ImgUrl(SinaHost, "b", JpegExt, "")), None, None),
      Img(AbsRef(ImgUrl(ImgHost, "pic", <<>>, "")), None, None),
      Img(Blank, AbsRef(ImgUrl(ImgHost, "a", JpgExt, "")), None),
      Img(None, None, AbsRef(ImgUrl(ImgHost, "c", ImageExt, "w=690"))) }

ImgDocs == UNION {[1..n -> ImgKinds] : n \in 0..MaxImgs}

\* A source attribute value is falsy when absent (an empty string is not
\* modelled apart from None).
Truthy(ref) == ref.kind # "none"

\* src = (img.get("src") or img.get("data-src") or img.get("data-original")
\*        or "").strip(): None stands for the empty result.
SourceOf(img) ==
    LET raw == IF Truthy(img.src) THEN img.src
               ELSE IF Truthy(img.data_src) THEN img.data_src
               ELSE img.data_original
    IN IF raw.kind = "blank" THEN None ELSE raw

\* urljoin(article_url, src): the article is on the blog's host.
FullUrl(ref) ==
    IF ref.kind = "abs" THEN ref.url
    ELSE ImgUrl(SinaHost, ref.stem, ref.ext, "")

\* A number for each string of the model, for the digest below.
StrCode(str) ==
    CASE str = ImgHost -> 1
      [] str = SinaHost -> 2
      [] str = "a" -> 3
      [] str = "b" -> 4
      [] str = "pic" -> 6
      [] str = "c" -> 9
      [] str = "w=690" -> 5
      [] OTHER -> 0

\* hashlib.sha1(full_url.encode("utf-8")).hexdigest()[:12]: a digest of the
\* whole URL string, cut to a fixed width.  The model's digest is additive
\* and small, so that distinct URLs may collide as truncated digests may.
Sha1Hex12(url) ==
    (StrCode(url.host) + StrCode(url.stem) + Len(url.ext) + StrCode(url.query))
        % DigestSpace

\* ext = os.path.splitext(urlparse(full_url).path)[1], .jpg when it is empty
\* or longer than 5
ExtOf(url) == IF url.ext = <<>> \/ Len(url.ext) > MaxExtLen THEN JpgExt ELSE url.ext

\* A mutant of LocalFilename: files are numbered in the order they are made
\* instead of being named after the URL.
LocalFilenameNumbered(url) == [digest |-> Cardinality(disk), ext |-> ExtOf(url)]

\* filename = f"{filename_hash}{ext}"
LocalFilename(url) == [digest |-> Sha1Hex12(url), ext |-> ExtOf(url)]

\* rel_path = os.path.join("images", filename)
RelPath(filename) == <<"images", filename>>

\* A mutant of NeedsFetch: the existence check is dropped.
NeedsFetchAlways(filename) == TRUE

\* if not os.path.exists(file_path): fetch
NeedsFetch(filename) == filename \notin disk

\* A mutant of AfterImageFailure: the element is rewritten although the
\* fetch failed.
AfterImageFailureRewrite(img, rel_path) == [img EXCEPT !.src = LocalRef(rel_path)]

\* except requests.RequestException: continue -- the element stays as it is
AfterImageFailure(img, rel_path) == img

InCache(url) == \E e \in cache : e[1] = url
CacheGet(url) == (CHOOSE e \in cache : e[1] = url)[2]

\* The img element the loop is at, its source and its absolute URL.
CurImg == imgs[img_i]
CurSrc == SourceOf(CurImg)
CurUrl == FullUrl(CurSrc)
CurFile == LocalFilename(CurUrl)

InLoop == img_pc = "loop" /\ img_i <= Len(imgs)

Logged(outcome, url) == Append(img_log, [i |-> img_i, outcome |-> outcome, url |-> url])

ImgInit ==
    /\ img_pc = "loop"
    /\ imgs \in ImgDocs
    /\ orig_imgs = imgs
    /\ img_i = 1
    /\ cache = {}
    /\ disk = {}
    /\ net = <<>>
    /\ img_log = <<>>
    /\ named = {}
    /\ img_pass = 1

\* if not src: continue
ImgNoSource ==
    /\ InLoop
    /\ CurSrc = None
    /\ img_log' = Logged("skipped", None)
    /\ img_i' = img_i + 1
    /\ UNCHANGED <<img_pc, imgs, orig_imgs, cache, disk, net, named, img_pass>>
    /\ ImgOnly

\* if full_url in cache: img["src"] = cache[full_url]; continue
ImgCacheHit ==
    /\ InLoop
    /\ CurSrc # None
    /\ InCache(CurUrl)
    /\ imgs' = [imgs EXCEPT ![img_i].src = LocalRef(CacheGet(CurUrl))]
    /\ img_log' = Logged("cached", CurUrl)
    /\ img_i' = img_i + 1
    /\ UNCHANGED <<img_pc, orig_imgs, cache, disk, net, named, img_pass>>
    /\ ImgOnly

\* The file exists already: no fetch, the source is rewritten and cached.
ImgFileExists ==
    /\ InLoop
    /\ CurSrc # None
    /\ ~InCache(CurUrl)
    /\ ~NeedsFetch(CurFile)
    /\ imgs' = [imgs EXCEPT ![img_i].src = LocalRef(RelPath(CurFile))]
    /\ cache' = cache \cup {<<CurUrl, RelPath(CurFile)>>}
    /\ named' = named \cup {<<CurUrl, CurFile>>}
    /\ img_log' = Logged("exists", CurUrl)
    /\ img_i' = img_i + 1
    /\ UNCHANGED <<img_pc, orig_imgs, disk, net, img_pass>>
    /\ ImgOnly

\* The file is fetched and written; the source is rewritten and cached.
ImgFetched ==
    /\ InLoop
    /\ CurSrc # None
    /\ ~InCache(CurUrl)
    /\ NeedsFetch(CurFile)
    /\ net' = Append(net, [url |-> CurUrl, ok |-> TRUE])
    /\ disk' = disk \cup {CurFile}
    /\ imgs' = [imgs EXCEPT ![img_i].src = LocalRef(RelPath(CurFile))]
    /\ cache' = cache \cup {<<CurUrl, RelPath(CurFile)>>}
    /\ named' = named \cup {<<CurUrl, CurFile>>}
    /\ img_log' = Logged("fetched", CurUrl)
    /\ img_i' = img_i + 1
    /\ UNCHANGED <<img_pc, orig_imgs, img_pass>>
    /\ ImgOnly

\* session.get or raise_for_status raises requests.RequestException.
ImgFetchFails ==
    /\ InLoop
    /\ CurSrc # None
    /\ ~InCache(CurUrl)
    /\ NeedsFetch(CurFile)
    /\ net' = Append(net, [url |-> CurUrl, ok |-> FALSE])
    /\ imgs' = [imgs EXCEPT ![img_i] = AfterImageFailure(CurImg, RelPath(CurFile))]
    /\ named' = named \cup {<<CurUrl, CurFile>>}
    /\ img_log' = Logged("failed", CurUrl)
    /\ img_i' = img_i + 1
    /\ UNCHANGED <<img_pc, orig_imgs, cache, disk, img_pass>>
    /\ ImgOnly

\* The loop is exhausted: return str(soup).
ImgReturn ==
    /\ img_pc = "loop"
    /\ img_i > Len(imgs)
    /\ img_pc' = "returned"
    /\ UNCHANGED <<imgs, orig_imgs, img_i, cache, disk, net, img_log, named, img_pass>>
    /\ ImgOnly

\* main calls download_images for the next article, or a rerun does: a new
\* cache, the files on disk stay.
ImgNextCall ==
    /\ img_pc = "returned"
    /\ img_pass < MaxPasses
    /\ img_pass' = img_pass + 1
    /\ imgs' \in ImgDocs
    /\ orig_imgs' = imgs'
    /\ img_i' = 1
    /\ cache' = {}
    /\ net' = <<>>
    /\ img_log' = <<>>
    /\ img_pc' = "loop"
    /\ UNCHANGED <<disk, named>>
    /\ ImgOnly

ImgNext ==
    \/ ImgNoSource
    \/ ImgCacheHit
    \/ ImgFileExists
    \/ ImgFetched
    \/ ImgFetchFails
    \/ ImgReturn
    \/ ImgNextCall

\* ------------------------------------------------------------------------
\* Claims about the image localizer (specification SpecImages)
\* ------------------------------------------------------------------------
\* The file name the claims expect for an absolute URL.
ExpectedName(url) ==
    [digest |-> Sha1Hex12(url),
     ext |-> IF url.ext = <<>> \/ Len(url.ext) > MaxExtLen THEN JpgExt ELSE url.ext]

\* Every name computed so far, in any pass, is the one the URL alone gives.
NamesAreFunctional ==
    /\ \A p, q \in named : p[1] = q[1] => p[2] = q[2]
    /\ \A p \in named : p[2] = ExpectedName(p[1])

\* A step of the loop at an element whose URL is not cached and whose file
\* exists issues no fetch and rewrites the source to the local path.
ExistingFileStep ==
    (/\ InLoop
     /\ CurSrc # None
     /\ ~InCache(CurUrl)
     /\ ExpectedName(CurUrl) \in disk
     /\ img_i' = img_i + 1)
    => /\ net' = net
       /\ disk' = disk
       /\ imgs'[img_i].src = LocalRef(<<"images", ExpectedName(CurUrl)>>)

\* C6: the local file name is a function of the absolute URL alone, in one
\* pass and across passes; when the file exists no fetch is issued and the
\* source is still rewritten to the local path.
C6_FilenameDeterminism == [](NamesAreFunctional) /\ [][ExistingFileStep]_vars

\* C6 witness: in a later pass an element's file existed already, nothing
\* was fetched in that pass, and its source is the local path.
C6_Witness ==
    /\ img_pass >= 2
    /\ net = <<>>
    /\ \E k \in 1..Len(img_log) :
         /\ img_log[k].outcome = "exists"
         /\ imgs[img_log[k].i].src = LocalRef(<<"images", ExpectedName(img_log[k].url)>>)

\* What holds of the elements in every state of a pass: an element whose
\* fetch failed is as it was received; a source that points to a local path
\* has its file on disk; a pass that returned went through every element.
FailureLeavesElement ==
    /\ \A k \in 1..Len(img_log) :
         img_log[k].outcome = "failed" => imgs[img_log[k].i] = orig_imgs[img_log[k].i]
    /\ \A i \in 1..Len(imgs) :
         imgs[i].src.kind = "local" => imgs[i].src.path[2] \in disk
    /\ img_pc = "returned" =>
         /\ Len(img_log) = Len(imgs)
         /\ \A k \in 1..Len(img_log) : img_log[k].i = k

\* A step whose fetch failed records no path, writes no file and moves to
\* the next element.
FailedFetchStep ==
    (/\ Len(net') = Len(net) + 1
     /\ ~net'[Len(net')].ok)
    => /\ cache' = cache
       /\ disk' = disk
       /\ img_i' = img_i + 1
       /\ img_pc' = "loop"

\* C7: a failed image fetch leaves the element's source as it was and
\* records no local path; the later elements are still processed and the
\* function returns; a source is rewritten only to a file that exists.
C7_ImageFailureIsLocal == [](FailureLeavesElement) /\ [][FailedFetchStep]_vars

\* C7 witness: a returned pass whose first element's fetch failed and whose
\* second element was fetched and rewritten.
C7_Witness ==
    /\ img_pc = "returned"
    /\ Len(img_log) >= 2
    /\ img_log[1].outcome = "failed"
    /\ imgs[1] = orig_imgs[1]
    /\ img_log[2].outcome = "fetched"
    /\ imgs[2].src.kind = "local"

\* C12: within one download_images pass at most one network fetch is issued
\* per distinct absolute image URL, however many elements resolve to it and
\* whatever the outcome of the first attempt.
C12_OneFetchPerUrl ==
    \A i, j \in 1..Len(net) : net[i].url = net[j].url => i = j

\* ========================================================================
\* Selector chains: pick_text
\* ========================================================================
\* The number of elements of a page and of entries of a chain.
MaxNodes == 2
MaxChain == 2

\* A text is a sequence of tokens, " " standing for a run of whitespace; the
\* empty sequence is the empty string.  Absent: the attribute is missing.
Absent == <<"absent">>

\* An element with text, and a meta element.
TextNode(tag, text) ==
    [tag |-> tag, text |-> text, property |-> "", name |-> "", content |-> Absent]
MetaNode(property, name, content) ==
    [tag |-> "meta", text |-> <<>>, property |-> property, name |-> name,
     content |-> content]

\* The elements the modelled pages are made of.
PickNodes ==
    { TextNode("h1", <<"A">>),
      TextNode("h1", <<" ">>),
      TextNode("h2.titName", <<" ", "B", " ">>),
      TextNode("p", <<"A">>),
      MetaNode("og:title", "", <<" ", "C", " ">>),
      MetaNode("og:title", "", Absent),
      MetaNode("og:title", "", <<" ">>),
      MetaNode("", "og:title", <<"D">>),
      MetaNode("", "title", <<"D">>) }

PickSoups == UNION {[1..n -> PickNodes] : n \in 0..MaxNodes}

PickSelectors == {"", "h1", "h2.titName", "meta:og:title", "meta:title"}

PickChains == UNION {[1..n -> PickSelectors] : n \in 0..MaxChain}

\* str.strip(), and get_text(" ", strip=True) of an element holding one text
RECURSIVE LStrip(_)
LStrip(text) ==
    IF text # <<>> /\ Head(text) = " " THEN LStrip(Tail(text)) ELSE text

RECURSIVE RStrip(_)
RStrip(text) ==
    IF text # <<>> /\ text[Len(text)] = " "
    THEN RStrip(SubSeq(text, 1, Len(text) - 1))
    ELSE text

Strip(text) == RStrip(LStrip(text))

\* sel.startswith("meta:") and sel.split(":", 1)[1]
IsMetaSelector(sel) == sel \in {"meta:og:title", "meta:title"}
MetaProp(sel) == IF sel = "meta:og:title" THEN "og:title" ELSE "title"

\* soup.find("meta", attrs={"property": prop}) or
\* soup.find("meta", attrs={"name": prop}): a position, 0 for None
FindMeta(s, prop) ==
    LET ByProperty(n) == n.tag = "meta" /\ n.property = prop
        ByName(n) == n.tag = "meta" /\ n.name = prop
    IN IF First(s, ByProperty) # 0 THEN First(s, ByProperty) ELSE First(s, ByName)

\* node.get("content") is truthy: present and not the empty string
HasContent(node) == node.content # Absent /\ node.content # <<>>

\* pick_text(soup, selectors)
RECURSIVE pick_text(_, _)
pick_text(s, selectors) ==
    IF selectors = <<>> THEN <<>>
    ELSE LET sel == Head(selectors)
             rest == Tail(selectors)
         IN IF sel = "" THEN pick_text(s, rest)
            ELSE IF IsMetaSelector(sel)
            THEN LET node == FindMeta(s, MetaProp(sel))
                 IN IF node # 0 /\ HasContent(s[node])
                    THEN Strip(s[node].content)
                    ELSE pick_text(s, rest)
            ELSE LET Matches(n) == n.tag = sel
                     node == First(s, Matches)
                 IN IF node # 0 /\ Strip(s[node].text) # <<>>
                    THEN Strip(s[node].text)
                    ELSE pick_text(s, rest)

PickInit ==
    /\ pick_pc = "call"
    /\ pick_soup \in PickSoups
    /\ pick_selectors \in PickChains
    /\ pick_result = <<>>

\* A caller (parse_article, guess_title, guess_time, guess_category) runs
\* pick_text over a chain.
PickText ==
    /\ pick_pc = "call"
    /\ pick_result' = pick_text(pick_soup, pick_selectors)
    /\ pick_pc' = "returned"
    /\ UNCHANGED <<pick_soup, pick_selectors>>
    /\ PickOnly

PickNext == PickText

\* ------------------------------------------------------------------------
\* Claims about pick_text (specification SpecPick)
\* ------------------------------------------------------------------------
\* What one chain entry extracts from the page, on its own: a structural
\* entry the stripped text of its first match, a meta entry the stripped
\* content of the meta found by property, else by name; empty when there is
\* no such element or attribute.
EntryYield(s, sel) ==
    IF sel = "" THEN <<>>
    ELSE IF IsMetaSelector(sel)
    THEN LET node == FindMeta(s, MetaProp(sel))
         IN IF node # 0 /\ s[node].content # Absent THEN Strip(s[node].content) ELSE <<>>
    ELSE LET Matches(n) == n.tag = sel
             node == First(s, Matches)
         IN IF node # 0 THEN Strip(s[node].text) ELSE <<>>

YieldingEntries == {i \in 1..Len(pick_selectors) : EntryYield(pick_soup, pick_selectors[i]) # <<>>}

\* C8: pick_text returns what the lowest-index entry that yields non-empty
\* text extracts, and the empty string exactly when no entry yields any.
C8_FirstNonEmptyWins ==
    pick_pc = "returned" =>
        IF YieldingEntries = {} THEN pick_result = <<>>
        ELSE pick_result =
                EntryYield(pick_soup,
                    pick_selectors[CHOOSE i \in YieldingEntries :
                                        \A j \in YieldingEntries : i <= j])

\* ========================================================================
\* File names: main's date stamp and safe_filename
\* ========================================================================
\* The length of the modelled titles.
MaxTitleLen == 3

\* Strings are sequences of characters.
Digits == <<"0", "1", "2", "3", "4", "5", "6", "7", "8", "9">>
IsDigit(c) == c \in Range(Digits)
DigitVal(c) == (CHOOSE i \in 1..Len(Digits) : Digits[i] = c) - 1
DigitChar(n) == Digits[n + 1]
IsDateSep(c) == c \in {"-", "/", "."}
IsSpace(c) == c \in {" ", "\t"}
\* [\\/:*?"<>|]
IsReserved(c) == c \in {"\\", "/", ":", "*", "?", "\"", "<", ">", "|"}

\* The decimal value of a sequence of digit characters.
RECURSIVE NumVal(_)
NumVal(ds) ==
    IF ds = <<>> THEN 0
    ELSE NumVal(SubSeq(ds, 1, Len(ds) - 1)) * 10 + DigitVal(ds[Len(ds)])

\* n in decimal, without padding (n >= 0).
RECURSIVE Decimal(_)
Decimal(n) == IF n < 10 THEN <<DigitChar(n)>> ELSE Append(Decimal(n \div 10), DigitChar(n % 10))

\* n in decimal, zero-padded to at least w digits.
RECURSIVE ZeroPad(_, _)
ZeroPad(ds, w) == IF Len(ds) >= w THEN ds ELSE ZeroPad(<<"0">> \o ds, w)

AllDigits(str, from, to) ==
    /\ from <= to
    /\ to <= Len(str)
    /\ \A i \in from..to : IsDigit(str[i])

\* Whether \d{4}[-/.]\d{ml}[-/.]\d{dl} matches str at position p.
ShapeAt(str, p, ml, dl) ==
    /\ AllDigits(str, p, p + 3)
    /\ p + 4 <= Len(str) /\ IsDateSep(str[p + 4])
    /\ AllDigits(str, p + 5, p + 4 + ml)
    /\ p + 5 + ml <= Len(str) /\ IsDateSep(str[p + 5 + ml])
    /\ AllDigits(str, p + 6 + ml, p + 5 + ml + dl)

\* The end of the match of \d{4}[-/.]\d{1,2}[-/.]\d{1,2} at position p, 0
\* when there is none: the quantifiers are greedy, the month first.
MatchEndAt(str, p) ==
    IF ShapeAt(str, p, 2, 2) THEN p + 9
    ELSE IF ShapeAt(str, p, 2, 1) THEN p + 8
    ELSE IF ShapeAt(str, p, 1, 2) THEN p + 8
    ELSE IF ShapeAt(str, p, 1, 1) THEN p + 7
    ELSE 0

\* re.search(r"\d{4}[-/.]\d{1,2}[-/.]\d{1,2}", str): match.group(0), or the
\* empty string when nothing matches (the leftmost match).
RECURSIVE SearchFrom(_, _)
SearchFrom(str, p) ==
    IF p > Len(str) THEN <<>>
    ELSE IF MatchEndAt(str, p) # 0 THEN SubSeq(str, p, MatchEndAt(str, p))
    ELSE SearchFrom(str, p + 1)

DateSearch(str) == SearchFrom(str, 1)

\* .replace("/", "-").replace(".", "-")
NormalizeSeps(str) == [i \in 1..Len(str) |-> IF str[i] \in {"/", "."} THEN "-" ELSE str[i]]

IsLeap(y) == (y % 4 = 0 /\ y % 100 # 0) \/ y % 400 = 0

DaysInMonth(y, m) ==
    IF m = 2 THEN (IF IsLeap(y) THEN 29 ELSE 28)
    ELSE IF m \in {4, 6, 9, 11} THEN 30
    ELSE 31

\* The position of the second "-" of a normalized match.
SecondDash(str) == CHOOSE i \in 6..Len(str) : str[i] = "-"

\* What stands for the ValueError of strptime.
Invalid == [y |-> 0, m |-> 0, d |-> 0]

\* A mutant of Strptime: the day is not checked against the month.
StrptimeLax(str) ==
    LET y == NumVal(SubSeq(str, 1, 4))
        m == NumVal(SubSeq(str, 6, SecondDash(str) - 1))
        d == NumVal(SubSeq(str, SecondDash(str) + 1, Len(str)))
    IN IF y >= 1 /\ m \in 1..12 /\ d >= 1 /\ d <= 31
       THEN [y |-> y, m |-> m, d |-> d]
       ELSE Invalid

\* datetime.strptime(str, "%Y-%m-%d") of a normalized match: the date, or
\* Invalid for ValueError.
Strptime(str) ==
    LET y == NumVal(SubSeq(str, 1, 4))
        m == NumVal(SubSeq(str, 6, SecondDash(str) - 1))
        d == NumVal(SubSeq(str, SecondDash(str) + 1, Len(str)))
    IN IF y >= 1 /\ m \in 1..12 /\ d >= 1 /\ d <= DaysInMonth(y, m)
       THEN [y |-> y, m |-> m, d |-> d]
       ELSE Invalid

\* The first year strftime("%Y") renders with four digits on every platform.
FourDigitYear == 1000

\* date.strftime("%Y%m%d"): %m and %d are zero-padded; %Y of a year below
\* 1000 is zero-padded or not, as the platform's C library has it.
Strftime(date, pads) ==
    (IF pads THEN ZeroPad(Decimal(date.y), 4) ELSE Decimal(date.y))
        \o ZeroPad(Decimal(date.m), 2) \o ZeroPad(Decimal(date.d), 2)

\* main: date_part
DatePart(published, pads) ==
    IF published = <<>> THEN <<>>
    ELSE LET found == DateSearch(published)
         IN IF found = <<>> THEN <<>>
            ELSE LET date == Strptime(NormalizeSeps(found))
                 IN IF date = Invalid THEN <<>> ELSE Strftime(date, pads)

\* str.strip()
RECURSIVE LStripSpace(_)
LStripSpace(str) ==
    IF str # <<>> /\ IsSpace(Head(str)) THEN LStripSpace(Tail(str)) ELSE str

RECURSIVE RStripSpace(_)
RStripSpace(str) ==
    IF str # <<>> /\ IsSpace(str[Len(str)])
    THEN RStripSpace(SubSeq(str, 1, Len(str) - 1))
    ELSE str

StripSpace(str) == RStripSpace(LStripSpace(str))

\* re.sub(r'[\\/:*?"<>|]', "_", name)
ReplaceReserved(str) == [i \in 1..Len(str) |-> IF IsReserved(str[i]) THEN "_" ELSE str[i]]

\* re.sub(r"\s+", " ", name)
RECURSIVE CollapseSpace(_)
CollapseSpace(str) ==
    IF str = <<>> THEN <<>>
    ELSE IF IsSpace(Head(str))
         THEN <<" ">> \o CollapseSpace(LStripSpace(str))
         ELSE <<Head(str)>> \o CollapseSpace(Tail(str))

\* safe_filename(name, fallback)
safe_filename(name, fallback) ==
    LET picked == IF StripSpace(name) # <<>> THEN StripSpace(name) ELSE fallback
        cleaned == StripSpace(CollapseSpace(ReplaceReserved(picked)))
    IN IF cleaned = <<>> THEN fallback ELSE cleaned

\* f"post_{idx:04d}"
PostFallback(i) == <<"p", "o", "s", "t", "_">> \o ZeroPad(Decimal(i), 4)

\* main: base_name
BaseName(published, name, i, pads) ==
    LET date_part == DatePart(published, pads)
        safe == safe_filename(name, PostFallback(i))
    IN IF date_part # <<>> THEN date_part \o <<"_">> \o safe ELSE safe

\* The published_at strings of the model: an optional lead, a date-shaped
\* text built of a year, a month and a day, and an optional tail; and a few
\* strings with no date in them.
Years == {<<"2", "0", "1", "4">>, <<"2", "0", "1", "6">>, <<"0", "9", "9", "9">>}
Months == {<<"3">>, <<"0", "2">>, <<"1", "3">>}
Days == {<<"2">>, <<"2", "9">>, <<"3", "0">>, <<"4", "0">>}
SepPairs == {<<"-", "-">>, <<"/", ".">>}
Leads == {<<>>, <<"1">>}
Tails == {<<>>, <<" ", "1", "0", ":", "0", "0">>,
          <<" ", "2", "0", "1", "4", "-", "0", "3", "-", "0", "2">>}

DateTexts(years, pairs) ==
    {y \o <<sp[1]>> \o m \o <<sp[2]>> \o d :
        y \in years, sp \in pairs, m \in Months, d \in Days}

PublishedAts ==
    DateTexts(Years, SepPairs)
    \cup {l \o c \o t :
            l \in Leads, c \in DateTexts({<<"2", "0", "1", "4">>}, {<<"-", "-">>}),
            t \in Tails}
    \cup {<<>>, <<"x", "x">>, <<"2", "0", "1", "4", "-", "0", "3">>}

\* The titles of the model.  parse_article's titles are stripped: they come
\* from get_text(strip=True) or str.strip().
TitleChars == {"a", " ", "\t", "/"}
Titles ==
    {t \in UNION {[1..n -> TitleChars] : n \in 0..MaxTitleLen} : StripSpace(t) = t}

ArticleIndexes == {7, 12}

NameInit ==
    /\ name_pc = "call"
    /\ published_at \in PublishedAts
    /\ title \in Titles
    /\ name_idx \in ArticleIndexes
    /\ base_name = <<>>

\* main derives the file's base name of the article; pads: whether the
\* platform's strftime zero-pads %Y.
DeriveBaseName ==
    /\ name_pc = "call"
    /\ \E pads \in BOOLEAN :
         base_name' = BaseName(published_at, title, name_idx, pads)
    /\ name_pc' = "returned"
    /\ UNCHANGED <<published_at, title, name_idx>>
    /\ NameOnly

NameNext == DeriveBaseName

\* ------------------------------------------------------------------------
\* Claims about the file base name (specification SpecName)
\* ------------------------------------------------------------------------
\* str[p..e] is date-shaped: four digits, a separator, ml digits, a
\* separator, dl digits, with ml and dl 1 or 2.
DateShaped(str, p, ml, dl) ==
    /\ p + 5 + ml + dl <= Len(str)
    /\ \A i \in p..(p + 3) : IsDigit(str[i])
    /\ IsDateSep(str[p + 4])
    /\ \A i \in (p + 5)..(p + 4 + ml) : IsDigit(str[i])
    /\ IsDateSep(str[p + 5 + ml])
    /\ \A i \in (p + 6 + ml)..(p + 5 + ml + dl) : IsDigit(str[i])

\* The date-shaped substrings of str, as <<first, last>> positions.
ShapedSpans(str) ==
    UNION {{<<p, p + 5 + ml + dl>> : ml \in {m \in {1, 2} : DateShaped(str, p, m, dl)}} :
              p \in 1..Len(str), dl \in {1, 2}}

\* The year, month and day a date-shaped span spells.
SpanDate(str, sp) ==
    LET seps == {i \in (sp[1] + 4)..sp[2] : IsDateSep(str[i])}
        s2 == CHOOSE i \in seps : i > sp[1] + 4
    IN [y |-> NumVal(SubSeq(str, sp[1], sp[1] + 3)),
        m |-> NumVal(SubSeq(str, sp[1] + 5, s2 - 1)),
        d |-> NumVal(SubSeq(str, s2 + 1, sp[2]))]

\* A date of the calendar.
CalendarDate(date) ==
    /\ date.y \in 1..9999
    /\ date.m \in 1..12
    /\ date.d >= 1
    /\ date.d <= (CASE date.m = 2 ->
                         (IF date.y % 4 = 0 /\ (date.y % 100 # 0 \/ date.y % 400 = 0)
                          THEN 29 ELSE 28)
                    [] date.m \in {4, 6, 9, 11} -> 30
                    [] OTHER -> 31)

\* YYYYMMDD
Stamp(date) ==
    ZeroPad(Decimal(date.y), 4) \o ZeroPad(Decimal(date.m), 2) \o ZeroPad(Decimal(date.d), 2)

\* The stamp with the year as the platform may render it when below 1000.
BareYearStamp(date) ==
    Decimal(date.y) \o ZeroPad(Decimal(date.m), 2) \o ZeroPad(Decimal(date.d), 2)

\* <name>: the title with the reserved characters replaced and whitespace
\* runs collapsed, or post_<idx> for an empty or whitespace-only title.
RECURSIVE ExpectedTitle(_, _)
ExpectedTitle(str, afterSpace) ==
    IF str = <<>> THEN <<>>
    ELSE IF IsSpace(Head(str))
         THEN (IF afterSpace THEN <<>> ELSE <<" ">>) \o ExpectedTitle(Tail(str), TRUE)
         ELSE <<IF IsReserved(Head(str)) THEN "_" ELSE Head(str)>>
                  \o ExpectedTitle(Tail(str), FALSE)

ExpectedBaseTitle ==
    IF \A i \in 1..Len(title) : IsSpace(title[i])
    THEN <<"p", "o", "s", "t", "_">> \o ZeroPad(Decimal(name_idx), 4)
    ELSE ExpectedTitle(title, FALSE)

\* C9, as stated: the base name is <YYYYMMDD>_<name> when published_at
\* contains a date-shaped substring that is a calendar date, and <name>
\* otherwise.  The stamp of any such substring is accepted, and for a year
\* below 1000 either rendering of the year.
C9_DateStampedName ==
    name_pc = "returned" =>
        LET valid == {sp \in ShapedSpans(published_at) :
                         CalendarDate(SpanDate(published_at, sp))}
        IN IF valid # {}
           THEN \E sp \in valid :
                    base_name \in
                        {Stamp(SpanDate(published_at, sp)) \o <<"_">> \o ExpectedBaseTitle,
                         BareYearStamp(SpanDate(published_at, sp)) \o <<"_">>
                             \o ExpectedBaseTitle}
           ELSE base_name = ExpectedBaseTitle

\* The leftmost date-shaped span, the longest of those that start there.
FirstSpan(str) ==
    CHOOSE sp \in ShapedSpans(str) :
        \A other \in ShapedSpans(str) :
            sp[1] < other[1] \/ (sp[1] = other[1] /\ sp[2] >= other[2])

\* C9, amended: the base name is <YYYYMMDD>_<name> when the leftmost,
\* longest date-shaped substring of published_at is a calendar date of a
\* year from 1000 on (for an earlier year the stamp's year has four digits
\* or is unpadded, as the platform's strftime has it), and <name> when there
\* is no date-shaped substring or that first one is no calendar date,
\* whatever other date-shaped substrings there are.
C9_FirstMatchDateStamp ==
    name_pc = "returned" =>
        IF ShapedSpans(published_at) = {} THEN base_name = ExpectedBaseTitle
        ELSE LET first == FirstSpan(published_at)
                 date == SpanDate(published_at, first)
             IN IF ~CalendarDate(date) THEN base_name = ExpectedBaseTitle
                ELSE IF date.y >= FourDigitYear
                THEN base_name = Stamp(date) \o <<"_">> \o ExpectedBaseTitle
                ELSE base_name \in {Stamp(date) \o <<"_">> \o ExpectedBaseTitle,
                                    BareYearStamp(date) \o <<"_">> \o ExpectedBaseTitle}

\* C9 witness: a stamped name whose title held a reserved character, from a
\* published_at whose first date-shaped substring is followed by more text.
C9_Witness ==
    /\ name_pc = "returned"
    /\ ShapedSpans(published_at) # {}
    /\ FirstSpan(published_at)[2] < Len(published_at)
    /\ CalendarDate(SpanDate(published_at, FirstSpan(published_at)))
    /\ \E i \in 1..Len(title) : IsReserved(title[i])
    /\ base_name = Stamp(SpanDate(published_at, FirstSpan(published_at)))
                       \o <<"_">> \o ExpectedBaseTitle

\* ========================================================================
\* Encoding resolver: normalize_encoding
\* ========================================================================
\* The number of parts a modelled response body is made of.
MaxParts == 3

\* response.content[:4096]
HeadWindow == 4096

\* The body is a sequence of tokens: a token is one byte, or one of the
\* multi-byte tokens below, whose bytes matter only when all are there.  An
\* encoding name is a sequence of tokens too; the empty sequence stands for
\* None and for the empty string.
TokenBytes(t) ==
    CASE t = "filler" -> 100
      [] t = "long filler" -> 4085
      [] t = "<meta " -> 6
      [] t = "<?xml " -> 6
      [] t = "charset=" -> 8
      [] t = "encoding=" -> 9
      [] OTHER -> 1

IsNameChar(t) == t \in {"g", "b", "k", "i", "2", "3", "1", "5"}
IsQuote(t) == t \in {"\"", "'"}
IsTerminator(t) == IsQuote(t) \/ t = ">"
\* Text over which the "." of a pattern cannot run: it holds line breaks.
IsFiller(t) == t \in {"filler", "long filler"}

\* The parts of the modelled bodies.
BodyParts ==
    { <<"filler">>,
      <<"long filler">>,
      <<"<meta ", "charset=", "\"", "g", "b", "k", "\"", ">">>,
      <<"charset=", "g", "b", "2", "3", "1", "2", " ">>,
      <<"<meta ", "charset=", " ", "b", "i", "g", "5", ">">>,
      <<"<?xml ", "encoding=", "\"", "g", "b", "k", "\"", ">">> }

RECURSIVE Bodies(_)
Bodies(n) ==
    IF n = 0 THEN {<<>>}
    ELSE Bodies(n - 1) \cup {b \o part : b \in Bodies(n - 1), part \in BodyParts}

DeclaredEncodings == {<<>>, <<"ISO-8859-1">>, <<"iso-8859-1">>, <<"utf-8">>, <<"g", "b", "k">>}
ApparentEncodings == {<<>>, <<"Big5">>}

\* str.lower() of an encoding name
LowerToken(t) == IF t = "ISO-8859-1" THEN "iso-8859-1" ELSE t
Lower(name) == [i \in 1..Len(name) |-> LowerToken(name[i])]

\* response.content[:4096].decode("ascii", errors="ignore"): the tokens that
\* lie in the first `room` bytes; a multi-byte token cut by the window
\* leaves bytes that match nothing.
RECURSIVE HeadOf(_, _)
HeadOf(body, room) ==
    IF body = <<>> \/ room <= 0 THEN <<>>
    ELSE IF TokenBytes(Head(body)) <= room
         THEN <<Head(body)>> \o HeadOf(Tail(body), room - TokenBytes(Head(body)))
         ELSE <<>>

\* The longest run of name characters of text from position i on.
RECURSIVE NameRun(_, _)
NameRun(text, i) ==
    IF i <= Len(text) /\ IsNameChar(text[i])
    THEN <<text[i]>> \o NameRun(text, i + 1)
    ELSE <<>>

\* re.search(r"charset=['\"]?([a-zA-Z0-9_-]+)", content_head, re.I): group 1
\* of the leftmost match from position i on, empty when there is none.
RECURSIVE CharsetSearch(_, _)
CharsetSearch(text, i) ==
    IF i > Len(text) THEN <<>>
    ELSE IF text[i] = "charset=" /\ NameRun(text, i + 1) # <<>>
         THEN NameRun(text, i + 1)
    ELSE IF text[i] = "charset=" /\ i + 1 <= Len(text) /\ IsQuote(text[i + 1])
            /\ NameRun(text, i + 2) # <<>>
         THEN NameRun(text, i + 2)
    ELSE CharsetSearch(text, i + 1)

\* The position after the quotes that start at i.
RECURSIVE SkipQuotes(_, _)
SkipQuotes(text, i) ==
    IF i <= Len(text) /\ IsQuote(text[i]) THEN SkipQuotes(text, i + 1) ELSE i

\* (.+?)["\'>] from position i: the tokens up to the first terminator after
\* the first of them; empty when no terminator follows on the line.
CaptureFrom(text, i) ==
    IF \E j \in (i + 1)..Len(text) :
           IsTerminator(text[j]) /\ \A k \in i..j : ~IsFiller(text[k])
    THEN SubSeq(text, i,
                (CHOOSE j \in (i + 1)..Len(text) :
                     /\ IsTerminator(text[j])
                     /\ \A k \in (i + 1)..(j - 1) : ~IsTerminator(text[k])) - 1)
    ELSE <<>>

\* Whether key follows opener at position i on the same line (opener.*?key),
\* as the first key after it.
KeyAfter(text, i, opener, key) ==
    CHOOSE j \in (i + 1)..(Len(text) + 1) :
        \/ j = Len(text) + 1
        \/ text[j] = key
        \/ IsFiller(text[j])

\* re.findall of opener.*?key["\']*(.+?)["\'>] from position i on.
RECURSIVE FindAllFrom(_, _, _, _)
FindAllFrom(text, i, opener, key) ==
    IF i > Len(text) THEN <<>>
    ELSE IF text[i] # opener THEN FindAllFrom(text, i + 1, opener, key)
    ELSE LET j == KeyAfter(text, i, opener, key)
             found == IF j <= Len(text) /\ text[j] = key
                      THEN CaptureFrom(text, SkipQuotes(text, j + 1))
                      ELSE <<>>
         IN IF found = <<>> THEN FindAllFrom(text, i + 1, opener, key)
            ELSE <<found>> \o FindAllFrom(text, j + 1, opener, key)

\* requests.utils.get_encodings_from_content(content_head): the charset
\* pattern over meta tags, then the XML declaration at the start of the
\* text.  (The pragma pattern needs a content= attribute, which the modelled
\* bodies do not hold.)
get_encodings_from_content(text) ==
    FindAllFrom(text, 1, "<meta ", "charset=")
        \o (IF text # <<>> /\ text[1] = "<?xml "
            THEN LET j == KeyAfter(text, 1, "<?xml ", "encoding=")
                     found == IF j <= Len(text) /\ text[j] = "encoding="
                              THEN CaptureFrom(text, SkipQuotes(text, j + 1))
                              ELSE <<>>
                 IN IF found = <<>> THEN <<>> ELSE <<found>>
            ELSE <<>>)

Utf8 == <<"utf-8">>

\* A mutant of normalize_encoding: the detector's guess is taken before the
\* markers of the body are looked at.
normalize_encoding_detector_first(declared, body, guess) ==
    IF declared # <<>> /\ Lower(declared) # <<"iso-8859-1">> THEN declared
    ELSE IF guess # <<>> THEN guess
    ELSE LET content_head == HeadOf(body, HeadWindow)
         IN IF CharsetSearch(content_head, 1) # <<>> THEN CharsetSearch(content_head, 1)
            ELSE IF get_encodings_from_content(content_head) # <<>>
            THEN get_encodings_from_content(content_head)[1]
            ELSE Utf8

\* normalize_encoding(response): response.encoding when it returns
normalize_encoding(declared, body, guess) ==
    IF declared # <<>> /\ Lower(declared) # <<"iso-8859-1">> THEN declared
    ELSE LET content_head == HeadOf(body, HeadWindow)
             match == CharsetSearch(content_head, 1)
             encodings == get_encodings_from_content(content_head)
         IN IF match # <<>> THEN match
            ELSE IF encodings # <<>> THEN encodings[1]
            ELSE IF guess # <<>> THEN guess
            ELSE Utf8

EncInit ==
    /\ enc_pc = "call"
    /\ resp_content \in Bodies(MaxParts)
    /\ apparent \in ApparentEncodings
    /\ encoding \in DeclaredEncodings

\* fetch_text calls normalize_encoding on the response.
NormalizeEncoding ==
    /\ enc_pc = "call"
    /\ encoding' = normalize_encoding(encoding, resp_content, apparent)
    /\ enc_pc' = "returned"
    /\ UNCHANGED <<resp_content, apparent>>
    /\ EncOnly

EncNext == NormalizeEncoding

\* ------------------------------------------------------------- claim C10
RECURSIVE ByteCount(_)
ByteCount(text) ==
    IF text = <<>> THEN 0 ELSE TokenBytes(Head(text)) + ByteCount(Tail(text))

\* The tokens that lie wholly in the first HeadWindow bytes of the body.
Window(body) ==
    LET n == CHOOSE n \in 0..Len(body) :
                 /\ ByteCount(SubSeq(body, 1, n)) <= HeadWindow
                 /\ n < Len(body) => ByteCount(SubSeq(body, 1, n + 1)) > HeadWindow
    IN SubSeq(body, 1, n)

\* The name that a charset= at position i of w marks, empty when none.
MarkerAt(w, i) ==
    IF w[i] # "charset=" THEN <<>>
    ELSE LET s == IF i + 1 <= Len(w) /\ IsQuote(w[i + 1]) THEN i + 2 ELSE i + 1
             e == CHOOSE e \in (s - 1)..Len(w) :
                      /\ \A k \in s..e : IsNameChar(w[k])
                      /\ e < Len(w) => ~IsNameChar(w[e + 1])
         IN SubSeq(w, s, e)

\* (a): the first charset= marker of the window.
MarkerInWindow(body) ==
    LET w == Window(body)
        hits == {i \in 1..Len(w) : MarkerAt(w, i) # <<>>}
    IN IF hits = {} THEN <<>>
       ELSE MarkerAt(w, CHOOSE i \in hits : \A j \in hits : i <= j)

\* (b): the first encoding sniffed from the tags of the window.
SniffedInWindow(body) ==
    LET found == get_encodings_from_content(Window(body))
    IN IF found = <<>> THEN <<>> ELSE found[1]

\* The first source of the list that gave something.
FirstAvailable(sources) ==
    sources[CHOOSE i \in 1..Len(sources) :
                /\ sources[i] # <<>>
                /\ \A j \in 1..(i - 1) : sources[j] = <<>>]

IsPlaceholder(name) == name \in {<<>>, <<"iso-8859-1">>, <<"ISO-8859-1">>}

Init ==
    /\ CrawlInit
    /\ ContentIdle
    /\ TagIdle
    /\ ImgIdle
    /\ PickIdle
    /\ NameIdle
    /\ EncIdle

Spec == Init /\ [][Next]_vars

InitContent ==
    /\ CrawlIdle
    /\ ContentInit
    /\ TagIdle
    /\ ImgIdle
    /\ PickIdle
    /\ NameIdle
    /\ EncIdle

SpecContent == InitContent /\ [][ContentNext]_vars

InitTags ==
    /\ CrawlIdle
    /\ ContentIdle
    /\ TagInit
    /\ ImgIdle
    /\ PickIdle
    /\ NameIdle
    /\ EncIdle

SpecTags == InitTags /\ [][TagNext]_vars

InitImages ==
    /\ CrawlIdle
    /\ ContentIdle
    /\ TagIdle
    /\ ImgInit
    /\ PickIdle
    /\ NameIdle
    /\ EncIdle

SpecImages == InitImages /\ [][ImgNext]_vars

InitPick ==
    /\ CrawlIdle
    /\ ContentIdle
    /\ TagIdle
    /\ ImgIdle
    /\ PickInit
    /\ NameIdle
    /\ EncIdle

SpecPick == InitPick /\ [][PickNext]_vars

InitName ==
    /\ CrawlIdle
    /\ ContentIdle
    /\ TagIdle
    /\ ImgIdle
    /\ PickIdle
    /\ NameInit
    /\ EncIdle

SpecName == InitName /\ [][NameNext]_vars

InitEnc ==
    /\ CrawlIdle
    /\ ContentIdle
    /\ TagIdle
    /\ ImgIdle
    /\ PickIdle
    /\ NameIdle
    /\ EncInit

SpecEnc == InitEnc /\ [][EncNext]_vars

====
